---- MODULE Spec2Model ----
(***************************************************************************)
(* YYC3Client (examples/python-sdk/index.py): the session / login /        *)
(* request / gather layer of the Python SDK example, as a state machine.   *)
(*                                                                         *)
(* One client instance is modelled.  The main coroutine of a caller        *)
(* enters and leaves `async with` scopes, awaits login and the request     *)
(* methods directly, or builds coroutines and awaits asyncio.gather over   *)
(* them.  Every coroutine runs on one event loop: a step of the model is   *)
(* the code a coroutine runs between two suspension points.                *)
(***************************************************************************)
EXTENDS Naturals, Sequences, FiniteSets

\* ------------------------------------------------------------------ bounds
MaxTasks == 2        \* coroutines (login or request) created in one run
MaxHandles == 2      \* scope entries (aiohttp sessions created) in one run

\* ------------------------------------------------------------------ values
NONE == "<None>"                 \* Python's None in the token slot
Tokens == {"T1", "T2"}           \* tokens the service may issue
Kinds == {"login", "call"}       \* call: reason / generate_text / get_metrics / get_learning_data

\* str(v) as the f-string of _get_headers formats it
Str(v) == IF v = NONE THEN "None" ELSE v

\* What the transport gives back for one request.  net = FALSE is a
\* transport-level failure (aiohttp.ClientError); otherwise an HTTP status
\* and a body that is JSON or not; a JSON body has a success marker
\* ("true", "false" or "missing") and, for login, data.token or none.
NoResp == [net |-> FALSE, status |-> 0, json |-> FALSE, success |-> "missing", tok |-> "missing"]
NetFail == [net |-> FALSE, status |-> 1, json |-> FALSE, success |-> "missing", tok |-> "missing"]
NonJson(s) == [net |-> TRUE, status |-> s, json |-> FALSE, success |-> "missing", tok |-> "missing"]
Json(s, succ, t) == [net |-> TRUE, status |-> s, json |-> TRUE, success |-> succ, tok |-> t]

LoginResponses ==
    {NetFail, NonJson(500)}
    \cup {Json(200, "true", t) : t \in Tokens \cup {"missing"}}
    \cup {Json(200, m, "missing") : m \in {"false", "missing"}}
    \cup {Json(500, "true", "T2")}

CallResponses ==
    {NetFail, NonJson(500)}
    \cup {Json(200, m, "missing") : m \in {"true", "false"}}
    \cup {Json(500, "true", "missing")}

Responses(kind) == IF kind = "login" THEN LoginResponses ELSE CallResponses

\* The outcome of a coroutine: still running, returned data, or raised.
Pending == [out |-> "none", exc |-> "none", data |-> NoResp]
Return(d) == [out |-> "return", exc |-> "none", data |-> d]
Raise(e) == [out |-> "raise", exc |-> e, data |-> NoResp]

NoHdr == [ContentType |-> "none", Authorization |-> "none"]

VARIABLES
    token,      \* self.token
    session,    \* self.session: 0 is None, h > 0 is the h-th ClientSession made
    handles,    \* the ClientSessions made so far: st, rel (releases of the connector)
    scope,      \* depth of `async with client` scopes the caller is inside
    tasks,      \* the coroutines created so far, in creation order
    gathers,    \* the asyncio.gather calls so far
    mainpc,     \* the caller: "idle", "await" (a direct await), "gather"
    exitExc,    \* what the last __aexit__ raised ("none": nothing)
    lastExit    \* what __aexit__ did, when it is the caller's latest operation

vars == <<token, session, handles, scope, tasks, gathers, mainpc, exitExc, lastExit>>

\* ------------------------------------------------------------ __init__
Init ==
    /\ token = NONE
    /\ session = 0
    /\ handles = <<>>
    /\ scope = 0
    /\ tasks = <<>>
    /\ gathers = <<>>
    /\ mainpc = "idle"
    /\ exitExc = "none"
    /\ lastExit = "none"

\* ------------------------------------------------- __aenter__ / __aexit__
NewHandle == [st |-> "open", rel |-> 0]

\* __aenter__: self.session = aiohttp.ClientSession()
Aenter(hs) == [hs |-> Append(hs, NewHandle), session |-> Len(hs) + 1]

\* Mutant of SessionClose: close() releases the connector on every call.
SessionCloseEveryCall(h) ==
    [h |-> [st |-> "closed", rel |-> h.rel + 1], exc |-> "none"]

\* ClientSession.close(): releases the connector when the session is not
\* closed yet, and is a no-op on a closed session.
SessionClose(h) ==
    [h |-> [st |-> "closed", rel |-> IF h.st = "open" THEN h.rel + 1 ELSE h.rel],
     exc |-> "none"]

\* Mutant of AexitCloses: the condition inverted (`if not self.session:`).
AexitClosesInverted(s) == s = 0

\* `if self.session:` of __aexit__
AexitCloses(s) == s # 0

\* self.session refers to a ClientSession that is not closed.
IsOpen(s, hs) == s \in DOMAIN hs /\ hs[s].st = "open"

\* __aexit__: closes self.session when it is set; self.session and
\* self.token are left as they are.  did tells what the call met: an open
\* session ("close"), a closed one ("reclose") or none ("skip").
Aexit(s, hs) ==
    IF AexitCloses(s)
    THEN [hs |-> [hs EXCEPT ![s] = SessionClose(hs[s]).h],
          exc |-> SessionClose(hs[s]).exc,
          did |-> IF IsOpen(s, hs) THEN "close" ELSE "reclose"]
    ELSE [hs |-> hs, exc |-> "none", did |-> "skip"]

\* Mutant of AexitToken: the release clears the token slot.
AexitTokenCleared(tok) == NONE

\* self.token after __aexit__: the method does not assign it.
AexitToken(tok) == tok

\* `async with client` entered by a caller that is inside no scope of this
\* client: the first entry, or a re-entry after the exit.
Enter ==
    /\ mainpc = "idle"
    /\ scope = 0
    /\ Len(handles) < MaxHandles
    /\ handles' = Aenter(handles).hs
    /\ session' = Aenter(handles).session
    /\ scope' = scope + 1
    /\ lastExit' = "none"
    /\ UNCHANGED <<token, tasks, gathers, mainpc, exitExc>>

\* Leaving the `async with` block, normally or with an exception propagating.
ExitScope ==
    /\ mainpc = "idle"
    /\ scope > 0
    /\ handles' = Aexit(session, handles).hs
    /\ exitExc' = Aexit(session, handles).exc
    /\ lastExit' = Aexit(session, handles).did
    /\ token' = AexitToken(token)
    /\ scope' = scope - 1
    /\ UNCHANGED <<session, tasks, gathers, mainpc>>

\* The release operation called again outside any scope.
CloseAgain ==
    /\ mainpc = "idle"
    /\ scope = 0
    /\ handles' = Aexit(session, handles).hs
    /\ exitExc' = Aexit(session, handles).exc
    /\ lastExit' = Aexit(session, handles).did
    /\ token' = AexitToken(token)
    /\ UNCHANGED <<session, scope, tasks, gathers, mainpc>>

\* ------------------------------------------------------------ coroutines
\* A coroutine of the client: kind; grp = 0 when the caller awaits it
\* directly, g > 0 when it is a child of the g-th gather; pc is "created"
\* (coroutine object built, no code run yet), "inflight" (request handed to
\* the transport, suspended on the response) or "done"; hdr is the header
\* set handed to the transport, via the handle the request went out on,
\* reqs the number of requests this coroutine handed to the transport,
\* resp what the transport gave back, res how the coroutine ended.
NewTask(kind, grp) ==
    [kind |-> kind, grp |-> grp, pc |-> "created", hdr |-> NoHdr, via |-> 0,
     reqs |-> 0, resp |-> NoResp, res |-> Pending]

\* Mutant of GetHeaders: the header is built from the token slot as it was
\* at construction (None), not from its current value.
GetHeadersAtConstruction(tok) ==
    [ContentType |-> "application/json", Authorization |-> "Bearer " \o Str(NONE)]

\* _get_headers
GetHeaders(tok) ==
    [ContentType |-> "application/json", Authorization |-> "Bearer " \o Str(tok)]

\* Mutant of SendRefusal: a closed session is not refused.
SendRefusalNoClosedCheck(s, hs) == IF s = 0 THEN "AttributeError" ELSE "none"

\* self.session.post / self.session.get up to the suspension on the network:
\* None has no attribute post (AttributeError); a closed ClientSession
\* refuses the request (RuntimeError: Session is closed).
SendRefusal(s, hs) ==
    IF s = 0 THEN "AttributeError"
    ELSE IF hs[s].st = "closed" THEN "RuntimeError"
    ELSE "none"

\* Mutant of RequestsPerCall: the request is sent, and sent once more.
RequestsPerCallWithRetry == 1 + 1

\* The requests one call of login / reason / ... hands to the transport.
RequestsPerCall == 1

\* The first step of a coroutine: login posts the credentials without
\* headers; the request methods evaluate self._get_headers() as they call
\* post / get.  No token check precedes the send.
Started(t, tok, s, hs) ==
    IF SendRefusal(s, hs) # "none"
    THEN [t EXCEPT !.pc = "done", !.res = Raise(SendRefusal(s, hs))]
    ELSE [t EXCEPT !.pc = "inflight",
                   !.hdr = IF t.kind = "login" THEN NoHdr ELSE GetHeaders(tok),
                   !.via = s,
                   !.reqs = @ + RequestsPerCall]

\* data.get("success") as a condition
Truthy(m) == m = "true"

\* Mutant of Decoded: a transport failure is caught and surfaces as a
\* failure to decode the (absent) body.
DecodedHidesTransportFailure(resp) ==
    IF ~resp.json THEN Raise("JSONDecodeError") ELSE Return(resp)

\* await response.json(), for login and the request methods alike
Decoded(resp) ==
    IF ~resp.net THEN Raise("ClientError")
    ELSE IF ~resp.json THEN Raise("JSONDecodeError")
    ELSE Return(resp)

\* login, from the response on: how the coroutine ends
LoginOutcome(resp) ==
    IF Decoded(resp).out = "raise" THEN Decoded(resp)
    ELSE IF Truthy(resp.success)
         THEN IF resp.tok = "missing" THEN Raise("KeyError") ELSE Return(resp)
         ELSE Raise("Exception")

\* Mutant of LoginToken: data.token is stored before the success marker is
\* looked at.
LoginTokenBeforeCheck(tok, resp) ==
    IF Decoded(resp).out = "return" THEN resp.tok ELSE tok

\* login, from the response on: self.token afterwards
LoginToken(tok, resp) ==
    IF Decoded(resp).out = "return" /\ Truthy(resp.success) /\ resp.tok # "missing"
    THEN resp.tok
    ELSE tok

\* reason / generate_text / get_metrics / get_learning_data, from the
\* response on: the decoded body is returned whatever the status or the
\* success marker.
CallOutcome(resp) == Decoded(resp)

\* Mutant of CallToken: a request method that fails clears the token slot.
CallTokenClearedOnError(tok, resp) ==
    IF Decoded(resp).out = "raise" THEN NONE ELSE tok

\* The request methods never assign self.token.
CallToken(tok, resp) == tok

\* Mutant of Finished: a request method builds its header again from the
\* token slot when the response arrives.
FinishedRebindsHeader(t, resp) ==
    [t EXCEPT !.pc = "done",
              !.resp = resp,
              !.hdr = IF t.kind = "login" THEN NoHdr ELSE GetHeaders(token),
              !.res = IF t.kind = "login" THEN LoginOutcome(resp) ELSE CallOutcome(resp)]

\* The end of a coroutine: the response is processed and the coroutine
\* returns or raises.
Finished(t, resp) ==
    [t EXCEPT !.pc = "done",
              !.resp = resp,
              !.res = IF t.kind = "login" THEN LoginOutcome(resp) ELSE CallOutcome(resp)]

\* ----------------------------------------------------------- asyncio.gather
NewGather(children) ==
    [children |-> children, done |-> <<>>, outer |-> "pending",
     results |-> <<>>, exc |-> "none", delivered |-> FALSE]

\* The children of the gather about to be awaited: the coroutines built
\* since the last gather, in the order of the argument list.
RECURSIVE Members(_, _, _)
Members(ts, g, i) ==
    IF i > Len(ts) THEN <<>>
    ELSE IF ts[i].grp = g THEN <<i>> \o Members(ts, g, i + 1)
    ELSE Members(ts, g, i + 1)

\* Mutant of GatherResults: the results are collected as the children
\* complete.
GatherResultsAsCompleted(children, done, ts) ==
    [k \in 1..Len(done) |-> ts[done[k]].res]

\* gather's result list: one entry per child, in the order of the children.
GatherResults(children, done, ts) ==
    [k \in 1..Len(children) |-> ts[children[k]].res]

\* gather's _done_callback for child i (return_exceptions is False).
DoneCallback(g, i, ts) ==
    LET d == Append(g.done, i) IN
    IF g.outer # "pending" THEN [g EXCEPT !.done = d]
    ELSE IF ts[i].res.out = "raise"
         THEN [g EXCEPT !.done = d, !.outer = "exception", !.exc = ts[i].res.exc]
    ELSE IF Len(d) = Len(g.children)
         THEN [g EXCEPT !.done = d, !.outer = "result",
                        !.results = GatherResults(g.children, d, ts)]
    ELSE [g EXCEPT !.done = d]

\* What the completion of task i does to the gathers and to the caller.
Settled(i, ts) ==
    IF ts[i].grp = 0
    THEN [gathers |-> gathers, mainpc |-> "idle"]
    ELSE [gathers |-> [gathers EXCEPT ![ts[i].grp] = DoneCallback(@, i, ts)],
          mainpc |-> mainpc]

\* A child of a gather that the event loop has not run yet.
Scheduled(i) ==
    /\ tasks[i].pc = "created"
    /\ tasks[i].grp > 0
    /\ tasks[i].grp <= Len(gathers)

\* ------------------------------------------------------------ the caller
\* await client.login(...) / await client.reason(...): the coroutine runs
\* at once, up to its request.
Call(kind) ==
    /\ mainpc = "idle"
    /\ Len(tasks) < MaxTasks
    /\ LET i == Len(tasks) + 1
           ts == Append(tasks, Started(NewTask(kind, 0), token, session, handles))
       IN /\ tasks' = ts
          /\ mainpc' = IF ts[i].pc = "done" THEN "idle" ELSE "await"
    /\ lastExit' = "none"
    /\ UNCHANGED <<token, session, handles, scope, gathers, exitExc>>

\* client.reason(...) without await: a coroutine object, no code run.
Construct(kind) ==
    /\ mainpc = "idle"
    /\ Len(tasks) < MaxTasks
    /\ tasks' = Append(tasks, NewTask(kind, Len(gathers) + 1))
    /\ lastExit' = "none"
    /\ UNCHANGED <<token, session, handles, scope, gathers, mainpc, exitExc>>

\* await asyncio.gather(*tasks)
Gather ==
    /\ mainpc = "idle"
    /\ Members(tasks, Len(gathers) + 1, 1) # <<>>
    /\ gathers' = Append(gathers, NewGather(Members(tasks, Len(gathers) + 1, 1)))
    /\ mainpc' = "gather"
    /\ lastExit' = "none"
    /\ UNCHANGED <<token, session, handles, scope, tasks, exitExc>>

\* The event loop runs the children in the order gather scheduled them.
TaskStart(i) ==
    /\ Scheduled(i)
    /\ \A j \in 1..(i - 1) : ~Scheduled(j)
    /\ LET ts == [tasks EXCEPT ![i] = Started(@, token, session, handles)] IN
        /\ tasks' = ts
        /\ gathers' = IF ts[i].pc = "done" THEN Settled(i, ts).gathers ELSE gathers
    /\ UNCHANGED <<token, session, handles, scope, mainpc, exitExc, lastExit>>

\* The transport answers (or fails) the request of task i, and the
\* coroutine runs to its end.
Complete(i, resp) ==
    /\ tasks[i].pc = "inflight"
    /\ \A j \in 1..Len(tasks) : ~Scheduled(j)
    /\ LET ts == [tasks EXCEPT ![i] = Finished(@, resp)] IN
        /\ tasks' = ts
        /\ token' = IF tasks[i].kind = "login" THEN LoginToken(token, resp)
                                               ELSE CallToken(token, resp)
        /\ gathers' = Settled(i, ts).gathers
        /\ mainpc' = Settled(i, ts).mainpc
    /\ UNCHANGED <<session, handles, scope, exitExc, lastExit>>

\* The caller resumes from await gather(...): with the result list, or
\* with the first exception a child raised.  Its wake-up is queued behind
\* the first steps of the children, which gather scheduled before it.
GatherResume ==
    /\ mainpc = "gather"
    /\ \A j \in 1..Len(tasks) : ~Scheduled(j)
    /\ gathers[Len(gathers)].outer # "pending"
    /\ gathers' = [gathers EXCEPT ![Len(gathers)].delivered = TRUE]
    /\ mainpc' = "idle"
    /\ UNCHANGED <<token, session, handles, scope, tasks, exitExc, lastExit>>

Next ==
    \/ Enter
    \/ ExitScope
    \/ CloseAgain
    \/ \E kind \in Kinds : Call(kind)
    \/ \E kind \in Kinds : Construct(kind)
    \/ Gather
    \/ \E i \in 1..Len(tasks) : TaskStart(i)
    \/ \E i \in 1..Len(tasks) : \E resp \in Responses(tasks[i].kind) : Complete(i, resp)
    \/ GatherResume

Spec == Init /\ [][Next]_vars

\* -------------------------------------------------------- nested entry
\* `async with client` entered by a caller that is inside a scope of this
\* client already: __aenter__ runs as on any entry and replaces
\* self.session, whatever it refers to.
EnterNested ==
    /\ mainpc = "idle"
    /\ scope > 0
    /\ Len(handles) < MaxHandles
    /\ handles' = Aenter(handles).hs
    /\ session' = Aenter(handles).session
    /\ scope' = scope + 1
    /\ lastExit' = "none"
    /\ UNCHANGED <<token, tasks, gathers, mainpc, exitExc>>

NextNested ==
    \/ Next
    \/ EnterNested

\* The client with callers that may nest scopes of one instance.
SpecNested == Init /\ [][NextNested]_vars

\* ================================================================ claims
Sent(t) == t.reqs > 0
Auth(t) == t.hdr.Authorization
Bearer(tok) == "Bearer " \o tok
SessionOpen == session # 0 /\ handles[session].st = "open"
SessionReleased == session # 0 /\ handles[session].st = "closed"

\* Task i runs its first step (up to the send) in this very step.
StartsNow(i) ==
    /\ tasks'[i].pc # "created"
    /\ i > Len(tasks) \/ tasks[i].pc = "created"

\* Tasks 1..k were all awaited directly: each ended before the next began.
Sequential(k) == \A j \in 1..k : tasks[j].grp = 0

LoginOk(t) == t.kind = "login" /\ t.res.out = "return"

\* The token the slot holds after tasks 1..k, when they ran one after the
\* other: that of the latest login among them that returned.
RECURSIVE StoredBy(_)
StoredBy(k) ==
    IF k = 0 THEN NONE
    ELSE IF LoginOk(tasks[k]) THEN tasks[k].resp.tok
    ELSE StoredBy(k - 1)
Is2xx(status) == status \in 200..299
\* A decoded body whose success marker is false or missing.
FailureBody(r) == r.net /\ r.json /\ r.success # "true"
\* A 2xx response whose decoded body has a true success marker.
SuccessResp(r) == r.net /\ r.json /\ Is2xx(r.status) /\ r.success = "true"
\* A failed login: done, with a response that indicates failure.
FailedLogin(t) == t.kind = "login" /\ t.pc = "done" /\ FailureBody(t.resp)

\* C1: on an open session whose token slot is empty, an authenticated call
\* fails before any network activity: the step that starts it raises and
\* hands no request to the transport.
C1_NoTokenCallFailsBeforeNetwork ==
    [][\A i \in 1..Len(tasks') :
          (StartsNow(i) /\ tasks'[i].kind = "call" /\ token = NONE /\ SessionOpen)
          => (tasks'[i].reqs = 0 /\ tasks'[i].res.out = "raise")]_vars

\* C2: a login whose response indicates failure (success marker false or
\* missing) ends in an error and leaves the stored token as it was: after
\* login(valid, T) -> login(invalid, fails)... the slot still holds T and an
\* authenticated call that follows carries Bearer T.
C2_FailedLoginKeepsToken ==
    \A j \in 1..Len(tasks) :
        (Sequential(j) /\ FailedLogin(tasks[j]))
        => /\ tasks[j].res.out = "raise"
           /\ j = Len(tasks) => token = StoredBy(j - 1)
           /\ (/\ j + 1 <= Len(tasks)
               /\ tasks[j + 1].grp = 0
               /\ tasks[j + 1].kind = "call"
               /\ Sent(tasks[j + 1]))
              => Auth(tasks[j + 1]) = Bearer(Str(StoredBy(j - 1)))

\* C2 witness: login stored T1, the next login failed on a false success
\* marker with an error, and the slot still holds T1.
C2_Witness ==
    /\ Len(tasks) = 2
    /\ Sequential(2)
    /\ LoginOk(tasks[1]) /\ tasks[1].resp.tok = "T1"
    /\ FailedLogin(tasks[2]) /\ tasks[2].resp.success = "false"
    /\ tasks[2].res.out = "raise"
    /\ token = "T1"

\* C3: after a login that succeeds with token T, the authenticated call
\* issued next on the same client sends Authorization: Bearer T, and
\* returns the response when the service answers it with success.
C3_CallAfterLoginCarriesToken ==
    \A i \in 1..Len(tasks) :
        (/\ i + 1 <= Len(tasks)
         /\ Sequential(i + 1)
         /\ LoginOk(tasks[i])
         /\ tasks[i + 1].kind = "call")
        => /\ Sent(tasks[i + 1]) => Auth(tasks[i + 1]) = Bearer(tasks[i].resp.tok)
           /\ (tasks[i + 1].pc = "done" /\ SuccessResp(tasks[i + 1].resp))
                 => tasks[i + 1].res = Return(tasks[i + 1].resp)

\* C3 witness: a login returned T2 and the call right after it carried
\* Bearer T2 and returned the service's success response.
C3_Witness ==
    /\ Len(tasks) = 2
    /\ Sequential(2)
    /\ LoginOk(tasks[1]) /\ tasks[1].resp.tok = "T2"
    /\ tasks[2].kind = "call" /\ Auth(tasks[2]) = "Bearer T2"
    /\ tasks[2].pc = "done" /\ SuccessResp(tasks[2].resp)
    /\ tasks[2].res.out = "return"

\* A batch of dispatches: a gather whose children are all request calls.
Batch(g) ==
    \A k \in 1..Len(gathers[g].children) : tasks[gathers[g].children[k]].kind = "call"

\* C4: the list a gather returns has, at position k, the result of its
\* k-th child, whatever the order in which the children completed.
C4_GatherKeepsInputOrder ==
    \A g \in 1..Len(gathers) :
        gathers[g].outer = "result"
        => /\ gathers[g].children = Members(tasks, g, 1)
           /\ Len(gathers[g].results) = Len(gathers[g].children)
           /\ \A k \in 1..Len(gathers[g].children) :
                 /\ tasks[gathers[g].children[k]].pc = "done"
                 /\ gathers[g].results[k] = tasks[gathers[g].children[k]].res

\* C4 witness: a gather returned its list although its children completed
\* in another order than they were given, with results that differ.
C4_Witness ==
    \E g \in 1..Len(gathers) :
        /\ Batch(g)
        /\ gathers[g].outer = "result"
        /\ gathers[g].delivered
        /\ Len(gathers[g].children) >= 2
        /\ gathers[g].done # gathers[g].children
        /\ gathers[g].results[1] # gathers[g].results[2]

\* C5: a gather gives control back to the caller (returns or raises) only
\* when every one of its children has settled: none is still in flight.
C5_GatherWaitsForAll ==
    \A g \in 1..Len(gathers) :
        (Batch(g) /\ gathers[g].delivered)
        => \A k \in 1..Len(gathers[g].children) :
              tasks[gathers[g].children[k]].pc # "inflight"

\* C6: a gather of N children, some of which fail, gives the caller a list
\* of length N whose slot k records the outcome (result or error) of child k.
C6_GatherRecordsEveryOutcome ==
    \A g \in 1..Len(gathers) :
        (/\ Batch(g)
         /\ gathers[g].delivered
         /\ \A k \in 1..Len(gathers[g].children) :
               /\ Sent(tasks[gathers[g].children[k]])
               /\ tasks[gathers[g].children[k]].pc = "done")
        => /\ gathers[g].outer = "result"
           /\ Len(gathers[g].results) = Len(gathers[g].children)
           /\ \A k \in 1..Len(gathers[g].children) :
                 gathers[g].results[k] = tasks[gathers[g].children[k]].res

\* C7: every handle acquired by scope entry is released exactly once by
\* the exit of its scope, on every exit path: no handle is released twice,
\* and once the caller has left every scope no handle is still open.
C7_ReleasedOnceOnExit ==
    \A h \in 1..Len(handles) :
        /\ handles[h].rel <= 1
        /\ handles[h].st = "closed" <=> handles[h].rel = 1
        /\ scope = 0 => handles[h].st = "closed"

\* C7, scopes entered one at a time: a request sent inside a scope failed,
\* the scope was left, and the handle it went out on is released, once.
C7_Witness ==
    /\ scope = 0
    /\ \E i \in 1..Len(tasks) :
          /\ tasks[i].res.out = "raise"
          /\ tasks[i].via # 0
          /\ handles[tasks[i].via].st = "closed"
          /\ handles[tasks[i].via].rel = 1
    /\ \E g \in 1..Len(gathers) : gathers[g].outer = "exception" /\ gathers[g].delivered

\* C8: the release operation called on an already released session raises
\* nothing and leaves the token, self.session and the handle as they were.
C8_CloseIdempotent ==
    [][(SessionReleased /\ (CloseAgain \/ ExitScope))
       => /\ token' = token
          /\ session' = session
          /\ Len(handles') = Len(handles)
          /\ \A h \in 1..Len(handles) :
                /\ handles'[h].st = handles[h].st
                /\ handles'[h].rel = handles[h].rel
          /\ exitExc' = "none"]_vars

\* C8 witness: __aexit__ has just run on a session that was closed
\* already: the handle is closed, released once, and nothing was raised.
C8_Witness ==
    /\ lastExit = "reclose"
    /\ SessionReleased
    /\ handles[session].rel = 1
    /\ exitExc = "none"

\* C9: login or an authenticated call begun on a released session fails
\* with the closed-session error (aiohttp: RuntimeError, Session is
\* closed), hands no request to the transport and leaves the token alone.
C9_ReleasedSessionRefuses ==
    [][\A i \in 1..Len(tasks') :
          (StartsNow(i) /\ SessionReleased)
          => /\ tasks'[i].pc = "done"
             /\ tasks'[i].res = Raise("RuntimeError")
             /\ tasks'[i].reqs = 0
             /\ token' = token]_vars

\* C9 witness: a login and a call were both refused on a released session.
C9_Witness ==
    /\ SessionReleased
    /\ \E i \in 1..Len(tasks) : \E j \in 1..Len(tasks) :
          /\ tasks[i].kind = "login" /\ tasks[i].res = Raise("RuntimeError")
          /\ tasks[i].reqs = 0
          /\ tasks[j].kind = "call" /\ tasks[j].res = Raise("RuntimeError")
          /\ tasks[j].reqs = 0

\* C10: an authenticated call answered with a non-2xx status, or with a
\* body whose success marker is false, fails: it is never returned to the
\* caller as a normal result.
C10_ApiFailureRaises ==
    \A i \in 1..Len(tasks) :
        (/\ tasks[i].kind = "call"
         /\ tasks[i].pc = "done"
         /\ tasks[i].resp.net /\ tasks[i].resp.json
         /\ (~Is2xx(tasks[i].resp.status) \/ tasks[i].resp.success = "false"))
        => tasks[i].res.out = "raise"

\* A login that is done and was answered with a non-2xx HTTP status.
Non2xxLogin(t) == t.kind = "login" /\ t.pc = "done" /\ t.resp.net /\ ~Is2xx(t.resp.status)

\* C11: a login answered with a non-2xx status fails, whatever the body
\* says, and does not write the token slot: when it is the only coroutine
\* of the run the slot is still empty.
C11_Non2xxLoginStoresNothing ==
    \A j \in 1..Len(tasks) :
        Non2xxLogin(tasks[j])
        => /\ tasks[j].res.out = "raise"
           /\ Len(tasks) = 1 => token = NONE

\* The response of task i is processed in this very step.
CompletesNow(i) == tasks[i].pc = "inflight" /\ tasks'[i].pc = "done"

\* A login response that indicates success: 2xx, a true success marker and
\* a token in the body.
SuccessfulLogin(r) == SuccessResp(r) /\ r.tok # "missing"

\* C12: the one token slot follows the login completions in the order in
\* which their responses are processed, sequential or interleaved: a
\* successful login overwrites the slot with its token, and a failed login
\* contributes nothing.
C12_LastProcessedLoginWins ==
    [][\A i \in 1..Len(tasks) :
          (CompletesNow(i) /\ tasks[i].kind = "login")
          => token' = IF SuccessfulLogin(tasks'[i].resp)
                      THEN tasks'[i].resp.tok
                      ELSE token]_vars

\* C13: no request dispatch, alone or as a child of a gather, succeeding
\* or failing, changes the token slot: every step that is not the
\* processing of a login response leaves the slot as it was.
C13_DispatchKeepsToken ==
    [][(\E i \in 1..Len(tasks) : CompletesNow(i) /\ tasks[i].kind = "login")
       \/ token' = token]_vars

\* C13 witness: a login stored T1, then a request dispatched through a
\* gather failed, and the slot still holds T1.
C13_Witness ==
    /\ Len(tasks) = 2
    /\ LoginOk(tasks[1]) /\ tasks[1].resp.tok = "T1"
    /\ tasks[2].kind = "call" /\ tasks[2].grp > 0
    /\ Sent(tasks[2]) /\ tasks[2].pc = "done" /\ tasks[2].res.out = "raise"
    /\ token = "T1"

\* C14: no retries: a call of login or of a request method hands at most
\* one request to the transport, whatever its outcome; one that was sent
\* and is done handed over exactly one.
C14_AtMostOneRequestPerCall ==
    \A i \in 1..Len(tasks) :
        /\ tasks[i].reqs <= 1
        /\ tasks[i].pc = "inflight" => tasks[i].reqs = 1
        /\ (tasks[i].pc = "done" /\ tasks[i].via # 0) => tasks[i].reqs = 1

\* C14 witness: a request method ended on a transport failure and a login
\* on a rejection by the service, each after exactly one request.
C14_Witness ==
    \E i \in 1..Len(tasks) : \E j \in 1..Len(tasks) :
        /\ tasks[i].kind = "call" /\ tasks[i].res = Raise("ClientError")
        /\ tasks[i].reqs = 1
        /\ tasks[j].kind = "login" /\ tasks[j].res = Raise("Exception")
        /\ tasks[j].reqs = 1

\* C15: the bearer token of a request is the value of the token slot when
\* the send begins, not when the coroutine was constructed, and the header
\* handed to the transport is not changed afterwards, whatever login
\* completes while the request is in flight.
C15_TokenBoundAtSend ==
    [][\A i \in 1..Len(tasks') :
          /\ (StartsNow(i) /\ tasks'[i].kind = "call" /\ Sent(tasks'[i]))
             => Auth(tasks'[i]) = Bearer(Str(token))
          /\ (i <= Len(tasks) /\ tasks[i].pc # "created")
             => tasks'[i].hdr = tasks[i].hdr]_vars

\* C15 witness: a request was constructed while the slot was empty, a login
\* awaited after that stored T1, and the request, sent through a gather
\* afterwards, carried Bearer T1.
C15_Witness ==
    /\ Len(tasks) = 2
    /\ tasks[1].kind = "call" /\ tasks[1].grp > 0
    /\ tasks[2].grp = 0 /\ LoginOk(tasks[2]) /\ tasks[2].resp.tok = "T1"
    /\ tasks[1].pc = "done" /\ Auth(tasks[1]) = "Bearer T1"

\* The handles that are open.
OpenHandles == {h \in 1..Len(handles) : handles[h].st = "open"}

\* C16: a client instance has at most one open transport handle in every
\* reachable state, also when it is entered again inside its own scope;
\* a request goes out on the handle self.session refers to and opens none.
C16_AtMostOneOpenHandle ==
    /\ Cardinality(OpenHandles) <= 1
    /\ \A i \in 1..Len(tasks) : tasks[i].via \in 0..Len(handles)

\* C17: a transport-level failure during login or a request method
\* reaches the caller as the transport's own error (aiohttp.ClientError),
\* which no other failure raises; it is never turned into a normal return,
\* and the token slot is left as it was.
C17_TransportFailureSurfaces ==
    [][\A i \in 1..Len(tasks) :
          CompletesNow(i)
          => /\ ~tasks'[i].resp.net
                => (tasks'[i].res = Raise("ClientError") /\ token' = token)
             /\ tasks'[i].res.exc = "ClientError" => ~tasks'[i].resp.net]_vars

\* C17 witness: a login stored T1, the next call of the client failed at
\* the transport with ClientError, and the slot still holds T1.
C17_Witness ==
    /\ Len(tasks) = 2
    /\ LoginOk(tasks[1]) /\ tasks[1].resp.tok = "T1"
    /\ Sent(tasks[2]) /\ tasks[2].pc = "done" /\ ~tasks[2].resp.net
    /\ tasks[2].res = Raise("ClientError")
    /\ token = "T1"

\* C18: a handle released by scope exit has no request in flight on it: a
\* request that is in flight went out on a handle that is still open, so a
\* scope is not left, and its session closed, while a child of a failed
\* gather is still running.
C18_NoReleaseWhileInFlight ==
    \A i \in 1..Len(tasks) :
        tasks[i].pc = "inflight" => handles[tasks[i].via].st = "open"

\* C19: the token slot is written only by the success branch of login: a
\* step changes it only by processing a login response, to the token that
\* login returns; a stored token is never reset to empty, not by the
\* release of the session nor by a re-entry, and a request sent after the
\* re-entry carries the token of the previous scope.
C19_TokenOnlyWrittenByLogin ==
    [][/\ token' # token
          => \E i \in 1..Len(tasks) :
                /\ CompletesNow(i)
                /\ LoginOk(tasks'[i])
                /\ token' = tasks'[i].resp.tok
       /\ token # NONE => token' # NONE]_vars

\* C19 witness: a login stored T1 on the first session, the scope was left
\* and the client entered again, and a request sent on the second session
\* carried Bearer T1.
C19_Witness ==
    /\ Len(tasks) = 2
    /\ LoginOk(tasks[1]) /\ tasks[1].resp.tok = "T1" /\ tasks[1].via = 1
    /\ handles[1].st = "closed"
    /\ tasks[2].kind = "call" /\ tasks[2].via = 2
    /\ Auth(tasks[2]) = "Bearer T1"
    /\ token = "T1"

====
